---- MODULE Spec2Model ----
(***************************************************************************)
(* Model of the restoration pipeline of src/app/main.py:                   *)
(*   analyze_building_with_azure, generate_restoration_description_with_   *)
(*   azure, create_restoration_mockup and restore_building_image, with the *)
(*   two module-level stores restoration_results and analysis_cache.       *)
(*                                                                         *)
(* Python strings are TLA+ strings; a Python dict is a function whose      *)
(* domain is its key set.  A run of restore_building_image is cut at the   *)
(* points where it waits: the three remote calls and the sleep before the  *)
(* moderation retry.  Everything the code does between two such points is  *)
(* one action.                                                             *)
(***************************************************************************)
EXTENDS Naturals, Integers, Sequences, FiniteSets, TLC

VARIABLES
    env,                  \* os.environ: the credentials and the deployment name
    restoration_results,  \* main.py:18
    analysis_cache,       \* main.py:19
    pc,                   \* where the running call of restore_building_image waits
    frame,                \* the locals of the running (or last) call
    ret,                  \* what the last call of restore_building_image returned
    uuid_count,           \* how many times uuid.uuid4() was called
    calls,                \* how many calls of restore_building_image were started
    requests,             \* the remote requests issued by the running (or last) call
    slept,                \* seconds the running (or last) call has spent in time.sleep
    analyze_log,          \* one entry per finished call of analyze_building_with_azure
    error_ids,            \* the ids carried by the error descriptors returned so far
    served,               \* how many requests were answered without running the pipeline
    response,             \* the answer to the last request, if it was answered by
                          \* results_page or by an early return of api_restore_building
    other                 \* a second call of analyze_building_with_azure that
                          \* overlaps the running call, when calls overlap

vars == <<env, restoration_results, analysis_cache, pc, frame, ret,
          uuid_count, calls, requests, slept, analyze_log,
          error_ids, served, response, other>>

----------------------------------------------------------------------------
(* Bounds of the model *)

MaxCalls == 2

----------------------------------------------------------------------------
(* Python values *)

\* None in a slot that otherwise holds a string
None == "<None>"

\* None in a slot that otherwise holds a float
FloatNone == [none |-> TRUE]

\* bool(v) for a string or None
Truthy(v) == v # None /\ v # ""

EmptyDict == [k \in {} |-> k]

\* d[k] = v
DictSet(d, k, v) == [x \in DOMAIN d \cup {k} |-> IF x = k THEN v ELSE d[x]]

\* d.get(k, default)
DictGet(d, k, default) == IF k \in DOMAIN d THEN d[k] ELSE default

\* A JSON value received as "options": a dict, or something without .get
PyDict(items) == [type |-> "dict", items |-> items]
PyList == [type |-> "list", items |-> EmptyDict]

\* sub in s
Contains(s, sub) ==
    \E i \in 1..(Len(s) + 1 - Len(sub)) : SubSeq(s, i, i + Len(sub) - 1) = sub

----------------------------------------------------------------------------
(* Program constants *)

RESTORATION_STYLES ==
    << "Modern renovation", "Historical restoration", "Eco-friendly renovation",
       "Luxury upgrade", "Commercial conversion", "Residential conversion",
       "Mixed-use development", "Minimalist restoration" >>

\* image_data[:100]
HASH_PREFIX_LEN == 100

\* time.sleep(2)
RETRY_DELAY == 2

FALLBACK_ANALYSIS ==
    "Modern building with standard architectural features requiring restoration."

HERITAGE_SENTENCE == "Preserve historical and heritage elements of the building."
LANDSCAPING_SENTENCE == "Add attractive landscaping and greenery around the building."
LIGHTING_SENTENCE ==
    "Add modern and attractive lighting to highlight architectural features."
EXPAND_SENTENCE ==
    "Consider a tasteful expansion or addition that complements the original structure."

\* RESTORATION_PROMPT.format(style_instruction=..., additional_instructions=...)
RESTORATION_PROMPT(style_instruction, additional_instructions) ==
    "\nCreate a realistic visualization of a derelict building after professional restoration and renovation.\n"
    \o style_instruction \o "\n" \o additional_instructions
    \o "\nMaintain the same architectural footprint and core structure, but repair all damage."
    \o "\nFix broken windows, repair the facade, update the exterior, and modernize the appearance while respecting the building's original character."
    \o "\nMake the surrounding area clean and well-maintained."
    \o "\nThe result should look like a professional architectural visualization of the restored building.\n"

\* The two error descriptors of restore_building_image
CREDENTIALS_ERROR ==
    [error |-> "Azure credentials not found in environment variables.",
     help  |-> "Please set AZURE_OPENAI_API_KEY, AZURE_OPENAI_ENDPOINT, and optionally AZURE_OPENAI_DEPLOYMENT_NAME environment variables."]

\* main.py:993
NO_IMAGE_ERROR ==
    [status_code |-> 400, content |-> [error |-> "No image data provided"]]

\* main.py:1000-1003
API_CREDENTIALS_ERROR ==
    [status_code |-> 401,
     content |-> [error |-> "Azure credentials not found.",
                  help  |-> "Set AZURE_OPENAI_API_KEY, AZURE_OPENAI_ENDPOINT, and optionally AZURE_OPENAI_DEPLOYMENT_NAME environment variables"]]

\* Mutant: the runtime error descriptor without the identifier
PipelineError_NoId(message, result_id) ==
    [error |-> "Restoration planning failed: " \o message,
     help  |-> "Please check your Azure AI credentials and GPT-4.1 deployment"]

PipelineError(message, result_id) ==
    [error |-> "Restoration planning failed: " \o message,
     help  |-> "Please check your Azure AI credentials and GPT-4.1 deployment",
     id    |-> result_id]

----------------------------------------------------------------------------
(* Pure functions of the code *)

\* " ".join(parts)
RECURSIVE Join(_)
Join(parts) ==
    IF Len(parts) = 0 THEN ""
    ELSE IF Len(parts) = 1 THEN parts[1]
    ELSE parts[1] \o " " \o Join(Tail(parts))

\* The key of analysis_cache: hash(image_data[:100]).  The key is modelled by
\* the prefix itself: two images get the same key exactly when their first
\* 100 characters agree (collisions of hash() on different prefixes are left out).
image_hash(image_data) ==
    IF Len(image_data) <= HASH_PREFIX_LEN THEN image_data
    ELSE SubSeq(image_data, 1, HASH_PREFIX_LEN)

\* base64.b64decode(s) on a string of base64 letters without '=' padding
\* returns when the length is a multiple of 4 and raises binascii.Error otherwise.
B64Decodable(s) == Len(s) % 4 = 0

Char(s, i) == SubSeq(s, i, i)
DIGITS == "0123456789"
IsDigit(c) == \E i \in 1..10 : Char(DIGITS, i) = c
DigitValue(c) == (CHOOSE i \in 1..10 : Char(DIGITS, i) = c) - 1

RECURSIVE DigitsValue(_, _)
DigitsValue(s, n) ==
    IF n = 0 THEN 0
    ELSE IF Char(s, n) = "." THEN DigitsValue(s, n - 1)
    ELSE 10 * DigitsValue(s, n - 1) + DigitValue(Char(s, n))

RECURSIVE Pow10(_)
Pow10(k) == IF k = 0 THEN 1 ELSE 10 * Pow10(k - 1)

\* float(s) for a string s: a signed decimal numeral becomes the number num/den,
\* anything else raises ValueError.
ParseFloat(s) ==
    LET signed == Len(s) > 0 /\ Char(s, 1) \in {"-", "+"}
        first  == IF signed THEN 2 ELSE 1
        dots   == {i \in first..Len(s) : Char(s, i) = "."}
        digs   == {i \in first..Len(s) : IsDigit(Char(s, i))}
        ok     == /\ digs # {}
                  /\ Cardinality(dots) <= 1
                  /\ dots \cup digs = first..Len(s)
        body   == SubSeq(s, first, Len(s))
        frac   == IF dots = {} THEN 0
                  ELSE Cardinality({i \in digs : \A d \in dots : i > d})
        mag    == DigitsValue(body, Len(body))
    IN  IF ok
        THEN [ok |-> TRUE,
              value |-> [num |-> IF signed /\ Char(s, 1) = "-" THEN 0 - mag ELSE mag,
                         den |-> Pow10(frac)]]
        ELSE [ok |-> FALSE, value |-> FloatNone]

\* uuid.uuid4().hex: the n-th call returns a fresh 32-digit token
HEXDIGITS == "0123456789abcdef"
RECURSIVE HexOf(_, _)
HexOf(n, width) ==
    IF width = 0 THEN ""
    ELSE HexOf(n \div 16, width - 1) \o Char(HEXDIGITS, (n % 16) + 1)

\* Mutant: uuid4 hands out the same id again
uuid4_hex_Repeated(n) == HexOf(1, 32)

\* main.py:282
uuid4_hex(n) == HexOf(n, 32)

----------------------------------------------------------------------------
(* Inputs: the arguments of restore_building_image and the remote answers *)

PAD100 ==
    "AAAAAAAAAAAAAAAAAAAAAAAAAAAAAAAAAAAAAAAAAAAAAAAAAAAAAAAAAAAAAAAAAAAAAAAAAAAAAAAAAAAAAAAAAAAAAAAAAAAA"

\* 104 characters, decodable
IMAGE_A == PAD100 \o "QUJD"
\* the same first 100 characters as IMAGE_A, 101 characters: not decodable
IMAGE_A2 == PAD100 \o "Q"
\* a short decodable image, another prefix
IMAGE_B == "QkJC"

Images == {IMAGE_A, IMAGE_A2, IMAGE_B}

\* The empty image payload, which api_restore_building does not pass on
EMPTY_IMAGE == ""

\* What the image-edit service can send back as a new picture
EDITED_IMAGE == "UkVTVE9SRUQh"

\* options, address, lat, lon as a caller passes them: the end-to-end request
\* of the specification, a request with an unparsable latitude and no style,
\* and a request whose options are a JSON list.
Arguments ==
    { [options |-> PyDict([style |-> "Modern renovation", preserve_heritage |-> TRUE]),
       address |-> "123 Main St", lat |-> "40.7", lon |-> "-74.0"],
      [options |-> PyDict([landscaping |-> TRUE, lighting |-> FALSE]),
       address |-> "", lat |-> "abc", lon |-> "-74.0"],
      [options |-> PyList,
       address |-> None, lat |-> None, lon |-> None] }

\* The ids a browser asks results_page for: the ids uuid4 hands out, and one
\* that it never hands out
LookupIds == { uuid4_hex(n) : n \in 1..MaxCalls } \cup { "no-such-id" }

\* The vision call (client.complete and response.choices[0].message.content):
\* an answer text, or an exception (network error, malformed response)
VisionOutcomes ==
    { [raised |-> FALSE, content |-> "Victorian brick warehouse, roof collapsed."],
      [raised |-> FALSE, content |-> "Concrete office block, facade stained."],
      [raised |-> TRUE,  content |-> None] }

\* The plan call
PlanOutcomes ==
    { [raised |-> FALSE, content |-> "1. Repoint the brickwork. 2. Lime mortar."],
      [raised |-> TRUE,  content |-> None] }

\* A response of requests.post: it raised, or it has a status code and a body
\* that is JSON text (with the parsed value) or is not
NetworkError == [exc |-> TRUE, status_code |-> 0, is_json |-> FALSE, payload |-> EmptyDict]
Http(status, payload) ==
    [exc |-> FALSE, status_code |-> status, is_json |-> TRUE, payload |-> payload]
HttpText(status) ==
    [exc |-> FALSE, status_code |-> status, is_json |-> FALSE, payload |-> EmptyDict]

EditResponses(image_data) ==
    { NetworkError,
      Http(200, [data |-> << [b64_json |-> EDITED_IMAGE] >>]),
      Http(200, [data |-> << [b64_json |-> image_data] >>]),
      Http(200, [data |-> << [b64_json |-> ""] >>]),
      Http(200, [data |-> << >>]),
      Http(200, [data |-> << [url |-> "https://example.invalid/x.png"] >>]),
      Http(200, [error |-> [code |-> "moderation_blocked"]]),
      HttpText(200),
      Http(400, [error |-> [code |-> "moderation_blocked"]]),
      Http(400, [error |-> [code |-> "content_filter"]]),
      HttpText(500) }

----------------------------------------------------------------------------
(* create_restoration_mockup: its helper and its decisions *)

\* What a failed _post_once hands back as text: JSON text or not
ErrorText(is_json, payload) == [is_json |-> is_json, payload |-> payload]

\* _post_once(), given the response of requests.post (main.py:226-237).
\* raised: resp.json() or payload["data"][0]["b64_json"] raised.
_post_once(resp) ==
    IF resp.exc
    THEN [raised |-> FALSE, success |-> FALSE, result |-> "",
          text |-> ErrorText(FALSE, EmptyDict)]                  \* "request_error: ..."
    ELSE IF resp.status_code = 200
    THEN IF ~resp.is_json
         THEN [raised |-> TRUE, success |-> FALSE, result |-> "",
               text |-> ErrorText(FALSE, EmptyDict)]
         ELSE IF "data" \in DOMAIN resp.payload /\ Len(resp.payload.data) > 0
         THEN IF "b64_json" \in DOMAIN resp.payload.data[1]
              THEN [raised |-> FALSE, success |-> TRUE,
                    result |-> resp.payload.data[1].b64_json,
                    text |-> ErrorText(FALSE, EmptyDict)]
              ELSE [raised |-> TRUE, success |-> FALSE, result |-> "",
                    text |-> ErrorText(FALSE, EmptyDict)]
         ELSE [raised |-> FALSE, success |-> FALSE, result |-> "",
               text |-> ErrorText(FALSE, EmptyDict)]              \* "no_data_key"
    ELSE [raised |-> FALSE, success |-> FALSE, result |-> "",
          text |-> ErrorText(resp.is_json, resp.payload)]        \* resp.text

\* json.loads(result).get("error", {}).get("code"), None when that raises
err_code(text) ==
    IF text.is_json /\ "error" \in DOMAIN text.payload
                    /\ "code" \in DOMAIN text.payload.error
    THEN text.payload.error.code
    ELSE None

\* Mutant: every failed first attempt is retried
ShouldRetry_AnyFailure(first) == ~first.success

\* main.py:247-254: is the request sent a second time?
ShouldRetry(first) ==
    ~first.success /\ err_code(first.text) = "moderation_blocked"

\* Mutant: the last result is returned even when the attempt failed
MockupResult_NoFallback(last, original_image_data) == last.result

\* main.py:262-267: what create_restoration_mockup returns after its last attempt
MockupResult(last, original_image_data) ==
    IF last.success /\ last.result # "" THEN last.result ELSE original_image_data

\* Mutant: the retry is sent without waiting
AfterSleep_NoWait(t) == t

\* main.py:256: the time after time.sleep(2), begun at time t
AfterSleep(t) == t + RETRY_DELAY

\* What a call of create_restoration_mockup ended in
MockupReturned(value) == [state |-> "returned", value |-> value]
MockupRaised == [state |-> "raised", value |-> None]
MockupNotCalled == [state |-> "not called", value |-> None]

----------------------------------------------------------------------------
(* restore_building_image: the code that runs between two waits *)

NotReturned == [status |-> "no value returned yet"]

\* Mutant: only the API key is tested
CredentialsMissing_KeyOnly == ~Truthy(env.AZURE_OPENAI_API_KEY)

\* Mutant: only the endpoint is tested
CredentialsMissing_EndpointOnly == ~Truthy(env.AZURE_OPENAI_ENDPOINT)

\* main.py:276 (and 56, 110, 169): not azure_api_key or not azure_endpoint
CredentialsMissing ==
    ~Truthy(env.AZURE_OPENAI_API_KEY) \/ ~Truthy(env.AZURE_OPENAI_ENDPOINT)

\* The defaults of os.environ.get("AZURE_OPENAI_DEPLOYMENT_NAME", ...) in the
\* two chat functions (main.py:54, 108) and in the image edit (main.py:166)
CHAT_DEPLOYMENT_DEFAULT == "gpt-4.1"
IMAGE_DEPLOYMENT_DEFAULT == "gpt-image-1"

\* os.environ.get(name, default): the default only when the variable is unset
environ_get(name, default) == IF env[name] = None THEN default ELSE env[name]

\* The deployment a request to the service svc is addressed to
\* (main.py:54 and 65, 108 and 118, 166 and 175)
Deployment(svc) ==
    environ_get("AZURE_OPENAI_DEPLOYMENT_NAME",
                IF svc = "edit" THEN IMAGE_DEPLOYMENT_DEFAULT
                                ELSE CHAT_DEPLOYMENT_DEFAULT)

Request(svc, at, content) ==
    [svc |-> svc, at |-> at, content |-> content, deployment |-> Deployment(svc)]

NewFrame(image_data, args) ==
    [image_data |-> image_data, options |-> args.options,
     address |-> args.address, lat |-> args.lat, lon |-> args.lon,
     result_id |-> None, building_analysis |-> None, selected_style |-> None,
     prompt |-> None, restoration_description |-> None,
     edit_responses |-> << >>, mockup |-> MockupNotCalled,
     plan_response |-> "none", plan_outcome |-> "not called",
     stages |-> << "RECEIVED" >>]

\* The stage the run is in is the last element of f.stages: RECEIVED at the
\* call (main.py:271), ANALYZING at 286, PLANNING at 288, EDITING at 316,
\* PERSISTED at 353, FAILED at 277 and 359.
Enter(f, stage) == [f EXCEPT !.stages = Append(@, stage)]

\* Mutant: the style of the request is ignored
selected_style_Ignored(items) == "Modern renovation"

\* main.py:288-307, for options that is a dict
selected_style(items) == DictGet(items, "style", "Modern renovation")

\* Mutant: a sentence is added when its flag is given, whatever its value
additional_instructions_KeyPresent(items, building_analysis) ==
    << "Building analysis: " \o building_analysis >>
    \o (IF "preserve_heritage" \in DOMAIN items THEN << HERITAGE_SENTENCE >> ELSE << >>)
    \o (IF "landscaping" \in DOMAIN items THEN << LANDSCAPING_SENTENCE >> ELSE << >>)
    \o (IF "lighting" \in DOMAIN items THEN << LIGHTING_SENTENCE >> ELSE << >>)
    \o (IF "expand_building" \in DOMAIN items THEN << EXPAND_SENTENCE >> ELSE << >>)

additional_instructions(items, building_analysis) ==
    << "Building analysis: " \o building_analysis >>
    \o (IF DictGet(items, "preserve_heritage", FALSE) THEN << HERITAGE_SENTENCE >> ELSE << >>)
    \o (IF DictGet(items, "landscaping", FALSE) THEN << LANDSCAPING_SENTENCE >> ELSE << >>)
    \o (IF DictGet(items, "lighting", FALSE) THEN << LIGHTING_SENTENCE >> ELSE << >>)
    \o (IF DictGet(items, "expand_building", FALSE) THEN << EXPAND_SENTENCE >> ELSE << >>)

BuildPrompt(items, building_analysis) ==
    RESTORATION_PROMPT(
        "Use a " \o selected_style(items) \o " style for the restoration.",
        Join(additional_instructions(items, building_analysis)))

\* Mutant: the replacement plan does not name the style
TemplatePlan_NoStyle(style) == "Restoration plan based on the analysis."

\* main.py:314
TemplatePlan(style) ==
    "Restoration plan for " \o style \o " style renovation based on the analysis."

\* main.py:317-323
RestoredImage(mock, image_data) ==
    IF mock.state = "returned" THEN mock.value ELSE image_data

\* Mutant: success means that create_restoration_mockup returned normally
RestorationSuccess_Returned(mock, image_data) == mock.state = "returned"

RestorationSuccess(mock, image_data) ==
    IF mock.state = "returned" THEN mock.value # image_data ELSE FALSE

\* Mutant: a coordinate that does not parse becomes 0.0
Location_ZeroDefault(lat, lon) ==
    LET zero == [num |-> 0, den |-> 1]
        a == ParseFloat(lat)
        b == ParseFloat(lon)
    IN  [lat |-> IF Truthy(lat) /\ a.ok THEN a.value ELSE zero,
         lon |-> IF Truthy(lon) /\ b.ok THEN b.value ELSE zero]

\* Mutant: each coordinate is parsed in a try of its own
Location_KeepParsed(lat, lon) ==
    IF Truthy(lat) /\ Truthy(lon)
    THEN [lat |-> ParseFloat(lat).value, lon |-> ParseFloat(lon).value]
    ELSE [lat |-> FloatNone, lon |-> FloatNone]

\* main.py:325-334
Location(lat, lon) ==
    IF Truthy(lat) /\ Truthy(lon)
    THEN LET a == ParseFloat(lat)
             b == ParseFloat(lon)
         IN  IF a.ok /\ b.ok THEN [lat |-> a.value, lon |-> b.value]
             ELSE [lat |-> FloatNone, lon |-> FloatNone]
    ELSE [lat |-> FloatNone, lon |-> FloatNone]

\* main.py:336-351 (created_at, the wall-clock time of the call, is left out)
ResultData(f, mock) ==
    [id |-> f.result_id,
     prompt |-> f.prompt,
     original_image |-> f.image_data,
     restored_image |-> RestoredImage(mock, f.image_data),
     options |-> f.options,
     azure_analysis |-> f.building_analysis,
     restoration_description |-> f.restoration_description,
     restoration_success |-> RestorationSuccess(mock, f.image_data),
     address |-> IF Truthy(f.address) THEN f.address ELSE "",
     location |-> Location(f.lat, f.lon)]

\* Mutant: the record is returned and not stored
AfterMockup_NotStored(f, reqs, mock) ==
    /\ restoration_results' = restoration_results
    /\ ret' = ResultData(f, mock)
    /\ frame' = Enter([f EXCEPT !.mockup = mock], "PERSISTED")
    /\ requests' = reqs
    /\ pc' = "returned"

\* main.py:317-356: create_restoration_mockup has ended in `mock`; the record
\* is built, stored and returned.
AfterMockup(f, reqs, mock) ==
    /\ restoration_results' =
           DictSet(restoration_results, f.result_id, ResultData(f, mock))
    /\ ret' = ResultData(f, mock)
    /\ frame' = Enter([f EXCEPT !.mockup = mock], "PERSISTED")
    /\ requests' = reqs
    /\ pc' = "returned"

\* Mutant: a preliminary record is stored before the image edit is requested
MockupStart_StoreFirst(f, reqs) ==
    LET fe == Enter(f, "EDITING")
    IN  IF CredentialsMissing
        THEN AfterMockup(fe, reqs, MockupReturned(fe.image_data))
        ELSE IF ~B64Decodable(fe.image_data)
        THEN AfterMockup(fe, reqs, MockupRaised)
        ELSE /\ pc' = "edit1"
             /\ frame' = fe
             /\ requests' = Append(reqs, Request("edit", slept, fe.restoration_description))
             /\ ret' = NotReturned
             /\ restoration_results' =
                    DictSet(restoration_results, fe.result_id,
                            ResultData(fe, MockupNotCalled))

\* main.py:164-242: create_restoration_mockup up to its first request
MockupStart(f, reqs) ==
    LET fe == Enter(f, "EDITING")
    IN  IF CredentialsMissing
        THEN AfterMockup(fe, reqs, MockupReturned(fe.image_data))
        ELSE IF ~B64Decodable(fe.image_data)
        THEN AfterMockup(fe, reqs, MockupRaised)
        ELSE /\ pc' = "edit1"
             /\ frame' = fe
             /\ requests' = Append(reqs, Request("edit", slept, fe.restoration_description))
             /\ ret' = NotReturned
             /\ UNCHANGED restoration_results

\* Mutant: the outer except also files the error descriptor under the id
PipelineFailed_Stored(f, reqs, message) ==
    /\ ret' = PipelineError(message, f.result_id)
    /\ frame' = Enter(f, "FAILED")
    /\ requests' = reqs
    /\ pc' = "returned"
    /\ restoration_results' =
           DictSet(restoration_results, f.result_id, PipelineError(message, f.result_id))

\* main.py:358-363: the outer except
PipelineFailed(f, reqs, message) ==
    /\ ret' = PipelineError(message, f.result_id)
    /\ frame' = Enter(f, "FAILED")
    /\ requests' = reqs
    /\ pc' = "returned"
    /\ UNCHANGED restoration_results

\* Mutant: a failed plan request is answered with a fallback text
GenerateOutcome_Fallback(out) ==
    IF out.raised
    THEN [raised |-> FALSE, content |-> "Restoration plan unavailable."]
    ELSE out

\* main.py:138-150: generate_restoration_description_with_azure returns the
\* answer of its one request; its except prints and re-raises
GenerateOutcome(out) == out

\* Mutant: when the plan call fails the record is stored without the image
\* edit
AfterPlan_SkipEdit(f, reqs, out) ==
    IF out.raised
    THEN AfterMockup([f EXCEPT !.plan_outcome = "raised",
                               !.restoration_description = TemplatePlan(f.selected_style)],
                     reqs, MockupReturned(f.image_data))
    ELSE MockupStart([f EXCEPT !.plan_outcome = "returned",
                               !.restoration_description = out.content], reqs)

\* Mutant: no inner try/except around the plan call, its failure reaches the
\* outer except
AfterPlan_Propagate(f, reqs, out) ==
    IF out.raised
    THEN PipelineFailed([f EXCEPT !.plan_outcome = "raised"], reqs,
                        "Azure credentials not available")
    ELSE MockupStart([f EXCEPT !.plan_outcome = "returned",
                               !.restoration_description = out.content], reqs)

\* main.py:310-316: generate_restoration_description_with_azure has ended
\* in `out` (it returned a text or it raised)
AfterPlan(f, reqs, out) ==
    MockupStart(
        [f EXCEPT !.plan_outcome = IF out.raised THEN "raised" ELSE "returned",
                  !.restoration_description =
                      IF out.raised THEN TemplatePlan(f.selected_style) ELSE out.content],
        reqs)

\* main.py:288-311 and 106-138: from the end of the analysis to the plan request
AfterAnalysis(f, reqs) ==
    IF f.options.type # "dict"
    THEN PipelineFailed(Enter(f, "PLANNING"), reqs, "'list' object has no attribute 'get'")
    ELSE LET f2 == [Enter(f, "PLANNING")
                       EXCEPT !.selected_style = selected_style(f.options.items),
                              !.prompt = BuildPrompt(f.options.items, f.building_analysis)]
         IN  IF CredentialsMissing
             THEN AfterPlan(f2, reqs, [raised |-> TRUE, content |-> None])
             ELSE /\ pc' = "plan"
                  /\ frame' = f2
                  /\ requests' = Append(reqs, Request("plan", slept, f2.prompt))
                  /\ ret' = NotReturned
                  /\ UNCHANGED restoration_results

\* Mutant: the cache is never consulted
CacheHit_Never(key, cache) == FALSE

\* main.py:48: is the analysis taken from the cache?
CacheHit(key, cache) == key \in DOMAIN cache

\* Mutant: the answer is never cached
CacheAfterVision_NoWrite(cache, key, out) == cache

\* Mutant: the fallback text of a failed call is cached like an answer
CacheAfterVision_CacheFallback(cache, key, out) ==
    DictSet(cache, key, IF out.raised THEN FALLBACK_ANALYSIS ELSE out.content)

\* Mutant: a key that is already set is not written again
CacheAfterVision_KeepFirst(cache, key, out) ==
    IF out.raised \/ key \in DOMAIN cache THEN cache
    ELSE DictSet(cache, key, out.content)

\* main.py:93: what a successful vision call leaves in the cache
CacheAfterVision(cache, key, out) ==
    IF out.raised THEN cache ELSE DictSet(cache, key, out.content)

AnalyzeEntry(image_data, remote, ok) ==
    [image |-> image_data, key |-> image_hash(image_data), remote |-> remote, ok |-> ok]

\* Mutant: a failed vision call is not caught and reaches the outer except
\* of restore_building_image
AfterVision_Propagate(f, reqs, out) ==
    IF out.raised
    THEN PipelineFailed(f, reqs, "Connection error.")
    ELSE AfterAnalysis([f EXCEPT !.building_analysis = out.content], reqs)

\* main.py:86-100 and 286: the vision call has ended in `out`;
\* analyze_building_with_azure returns the answer, or the fallback text from
\* its except, and restore_building_image goes on
AfterVision(f, reqs, out) ==
    AfterAnalysis(
        [f EXCEPT !.building_analysis =
                      IF out.raised THEN FALLBACK_ANALYSIS ELSE out.content],
        reqs)

\* main.py:286 and 45-60: analyze_building_with_azure up to its request
AnalyzeStart(f0) ==
    LET f == Enter(f0, "ANALYZING")
        key == image_hash(f.image_data)
    IN  IF CacheHit(key, analysis_cache)
        THEN /\ analyze_log' = Append(analyze_log, AnalyzeEntry(f.image_data, FALSE, TRUE))
             /\ UNCHANGED analysis_cache
             /\ AfterAnalysis([f EXCEPT !.building_analysis = analysis_cache[key]], << >>)
        ELSE IF CredentialsMissing
        THEN /\ analyze_log' = Append(analyze_log, AnalyzeEntry(f.image_data, FALSE, FALSE))
             /\ UNCHANGED analysis_cache
             /\ AfterAnalysis([f EXCEPT !.building_analysis = FALLBACK_ANALYSIS], << >>)
        ELSE /\ pc' = "vision"
             /\ frame' = f
             /\ requests' = << Request("vision", 0, f.image_data) >>
             /\ ret' = NotReturned
             /\ UNCHANGED <<restoration_results, analysis_cache, analyze_log>>

----------------------------------------------------------------------------
(* The actions *)

\* The routes of the two handlers (main.py:974 and 1015)
RESTORE_ROUTE == "/restore"
RESULTS_ROUTE == "/results/{result_id}"

\* A request to `route` with the argument `request` was answered with `answer`
Response(route, request, answer) ==
    [route |-> route, request |-> request, answer |-> answer]

NoResponse == Response("none", None, [status_code |-> 0, content |-> EmptyDict])

\* Mutant: the credentials are tested before the image
early_return_CredentialsFirst(image_data) ==
    IF CredentialsMissing THEN API_CREDENTIALS_ERROR ELSE NO_IMAGE_ERROR

\* main.py:992-1003: the answer of api_restore_building when it does not
\* call restore_building_image
early_return(image_data) ==
    IF ~Truthy(image_data) THEN NO_IMAGE_ERROR ELSE API_CREDENTIALS_ERROR

\* Mutant: the record is read without the membership test, and the KeyError
\* of an unknown id becomes the server's error page
results_page_Index(result_id, results) ==
    IF result_id \notin DOMAIN results
    THEN [status_code |-> 500,
          content |-> [title |-> "Internal Server Error", has_location |-> FALSE]]
    ELSE [status_code |-> 200,
          content |-> [title |-> "Restoration Results", has_location |-> FALSE]]

\* main.py:1016-1056: the page results_page answers with
results_page(result_id, results) ==
    IF result_id \notin DOMAIN results
    THEN [status_code |-> 200,
          content |-> [title |-> "Result Not Found", has_location |-> FALSE]]
    ELSE LET result == results[result_id]
             location == DictGet(result, "location", EmptyDict)
             latitude == DictGet(location, "lat", FloatNone)
             longitude == DictGet(location, "lon", FloatNone)
         IN  [status_code |-> 200,
              content |-> [title |-> "Restoration Results",
                           has_location |-> latitude # FloatNone /\ longitude # FloatNone]]

\* No second call of analyze_building_with_azure was made
NoOther == [pc |-> "idle", image_data |-> None, analysis |-> None,
            wrote |-> FALSE, n |-> 0]

\* The id of the error descriptor that the step returns, if it returns one,
\* joins error_ids
RecordErrorId ==
    error_ids' = IF pc' = "returned" /\ "error" \in DOMAIN ret' /\ "id" \in DOMAIN ret'
                 THEN error_ids \cup {ret'.id}
                 ELSE error_ids

Init ==
    /\ env \in [AZURE_OPENAI_API_KEY : {None, "", "0123456789abcdef"},
                AZURE_OPENAI_ENDPOINT : {None, "", "https://derelict.openai.azure.com"},
                AZURE_OPENAI_DEPLOYMENT_NAME : {None}]
    /\ restoration_results = EmptyDict
    /\ analysis_cache = EmptyDict
    /\ pc = "idle"
    /\ frame = NewFrame("", [options |-> PyDict(EmptyDict), address |-> None,
                                lat |-> None, lon |-> None])
    /\ ret = NotReturned
    /\ uuid_count = 0
    /\ calls = 0
    /\ requests = << >>
    /\ slept = 0
    /\ analyze_log = << >>
    /\ error_ids = {}
    /\ served = 0
    /\ response = NoResponse
    /\ other = NoOther

\* restore_building_image(image_data, options, address, lat, lon) is called
\* (main.py:271-286) and runs to its first wait or to its return.
Restore(image_data, args) ==
    /\ pc \in {"idle", "returned"}
    /\ calls + served < MaxCalls
    /\ calls' = calls + 1
    /\ slept' = 0
    /\ response' = NoResponse
    /\ UNCHANGED <<env, other, served>>
    /\ IF CredentialsMissing
       THEN /\ ret' = CREDENTIALS_ERROR
            /\ pc' = "returned"
            /\ frame' = Enter(NewFrame(image_data, args), "FAILED")
            /\ requests' = << >>
            /\ UNCHANGED <<restoration_results, analysis_cache, uuid_count, analyze_log>>
       ELSE /\ uuid_count' = uuid_count + 1
            /\ AnalyzeStart([NewFrame(image_data, args)
                                EXCEPT !.result_id = uuid4_hex(uuid_count + 1)])
    /\ RecordErrorId

\* The vision call ends (main.py:86-100).
VisionResponse(out) ==
    /\ pc = "vision"
    /\ LET key == image_hash(frame.image_data)
       IN  /\ analysis_cache' = CacheAfterVision(analysis_cache, key, out)
           /\ analyze_log' = Append(analyze_log, AnalyzeEntry(frame.image_data, TRUE, ~out.raised))
           /\ AfterVision(frame, requests, out)
    /\ UNCHANGED <<env, other, uuid_count, calls, slept, served, response>>
    /\ RecordErrorId

\* The plan call ends (main.py:138-150, 310-314).
PlanResponse(out) ==
    /\ pc = "plan"
    /\ AfterPlan([frame EXCEPT !.plan_response = IF out.raised THEN "error" ELSE "ok"],
                 requests, GenerateOutcome(out))
    /\ UNCHANGED <<env, other, analysis_cache, uuid_count, calls, slept, analyze_log,
                   served, response>>
    /\ RecordErrorId

\* The first image-edit request ends (main.py:242-267).
EditResponse1(resp) ==
    /\ pc = "edit1"
    /\ LET first == _post_once(resp)
           f == [frame EXCEPT !.edit_responses = Append(@, resp)]
       IN  IF first.raised
           THEN AfterMockup(f, requests, MockupRaised)
           ELSE IF ShouldRetry(first)
           THEN /\ pc' = "sleep"
                /\ frame' = f
                /\ UNCHANGED <<restoration_results, ret, requests>>
           ELSE AfterMockup(f, requests,
                            MockupReturned(MockupResult(first, f.image_data)))
    /\ UNCHANGED <<env, other, analysis_cache, uuid_count, calls, slept, analyze_log,
                   served, response>>
    /\ RecordErrorId

\* Mutant: the pipeline stays in the wait before the second request
ModerationRetry_WaitsForever ==
    /\ pc = "sleep"
    /\ UNCHANGED vars

\* time.sleep(2) is over and the request is sent again (main.py:256-257).
ModerationRetry ==
    /\ pc = "sleep"
    /\ slept' = AfterSleep(slept)
    /\ requests' = Append(requests,
                          Request("edit", AfterSleep(slept), frame.restoration_description))
    /\ pc' = "edit2"
    /\ UNCHANGED <<env, other, restoration_results, analysis_cache, frame, ret,
                   uuid_count, calls, analyze_log, error_ids, served, response>>

\* api_restore_building answers a request without calling
\* restore_building_image (main.py:992-1003): the image is empty, or a
\* credential is missing.  The handler is a coroutine that does not yield
\* while the pipeline runs, so it starts only between two runs.
ApiRestoreRejected(image_data) ==
    /\ pc \in {"idle", "returned"}
    /\ calls + served < MaxCalls
    /\ ~Truthy(image_data) \/ CredentialsMissing
    /\ served' = served + 1
    /\ response' = Response(RESTORE_ROUTE, image_data, early_return(image_data))
    /\ UNCHANGED <<env, other, restoration_results, analysis_cache, pc, frame, ret,
                   uuid_count, calls, requests, slept, analyze_log, error_ids>>

\* results_page(result_id) is called (main.py:1015-1056).  It only reads
\* restoration_results, which a pipeline run changes in its last step, so a
\* lookup that overlaps a run sees what a lookup before or after the run sees.
ResultsPage(result_id) ==
    /\ pc \in {"idle", "returned"}
    /\ calls + served < MaxCalls
    /\ served' = served + 1
    /\ response' = Response(RESULTS_ROUTE, result_id,
                            results_page(result_id, restoration_results))
    /\ UNCHANGED <<env, other, restoration_results, analysis_cache, pc, frame, ret,
                   uuid_count, calls, requests, slept, analyze_log, error_ids>>

\* The second image-edit request ends (main.py:257-267).
EditResponse2(resp) ==
    /\ pc = "edit2"
    /\ LET second == _post_once(resp)
           f == [frame EXCEPT !.edit_responses = Append(@, resp)]
       IN  IF second.raised
           THEN AfterMockup(f, requests, MockupRaised)
           ELSE AfterMockup(f, requests,
                            MockupReturned(MockupResult(second, f.image_data)))
    /\ UNCHANGED <<env, other, analysis_cache, uuid_count, calls, slept, analyze_log,
                   served, response>>
    /\ RecordErrorId

Next ==
    \/ \E image_data \in Images, args \in Arguments :
           Restore(image_data, args)
    \/ \E out \in VisionOutcomes : VisionResponse(out)
    \/ \E out \in PlanOutcomes : PlanResponse(out)
    \/ \E resp \in EditResponses(frame.image_data) : EditResponse1(resp)
    \/ ModerationRetry
    \/ \E resp \in EditResponses(frame.image_data) : EditResponse2(resp)
    \/ \E image_data \in Images \cup {EMPTY_IMAGE} : ApiRestoreRejected(image_data)
    \/ \E result_id \in LookupIds : ResultsPage(result_id)

Spec == Init /\ [][Next]_vars

----------------------------------------------------------------------------
(* The pipeline with other requests: many coordinates, one image, the remote *)
(* services answering or failing at once, no moderation block and no lookup. *)

\* lat and lon as a caller passes them: numerals, other strings, empty
\* strings and None, in every position
LatLonCases ==
    { <<"40.7", "-74.0">>, <<"12", "+3.50">>, <<"0", "0.0">>,
      <<"abc", "-74.0">>, <<"40.7", "abc">>, <<"4o.7", "7-4">>,
      <<"", "-74.0">>, <<"40.7", "">>, <<"", "">>,
      <<None, "-74.0">>, <<"40.7", None>>, <<None, None>> }

LocationArguments ==
    { [options |-> PyDict([style |-> "Historical restoration"]),
       address |-> "1 Quay St", lat |-> c[1], lon |-> c[2]] : c \in LatLonCases }

\* The image-edit service answers with a new picture, or cannot be reached
PlainEditResponses ==
    { NetworkError, Http(200, [data |-> << [b64_json |-> EDITED_IMAGE] >>]) }

\* Both credentials are set
ConfiguredInit == Init /\ ~CredentialsMissing

LocationNext ==
    \/ \E args \in LocationArguments : Restore(IMAGE_B, args)
    \/ \E out \in VisionOutcomes : VisionResponse(out)
    \/ \E out \in PlanOutcomes : PlanResponse(out)
    \/ \E resp \in PlainEditResponses : EditResponse1(resp)

LocationSpec == ConfiguredInit /\ [][LocationNext]_vars

\* The options of a request as the JSON body gives them: the end-to-end
\* request of the specification (with and without the other flags spelled
\* out), no option at all, flags alone and together, true and false, listed
\* styles, and a style that RESTORATION_STYLES does not list
OptionsCases ==
    { [style |-> "Modern renovation", preserve_heritage |-> TRUE],
      [style |-> "Modern renovation", preserve_heritage |-> TRUE,
       landscaping |-> FALSE, lighting |-> FALSE, expand_building |-> FALSE],
      EmptyDict,
      [landscaping |-> TRUE],
      [style |-> "Eco-friendly renovation", lighting |-> TRUE],
      [expand_building |-> TRUE],
      [style |-> "Minimalist restoration", preserve_heritage |-> TRUE,
       landscaping |-> TRUE, lighting |-> TRUE, expand_building |-> TRUE],
      [preserve_heritage |-> FALSE, landscaping |-> FALSE,
       lighting |-> FALSE, expand_building |-> FALSE],
      [style |-> "Gothic revival", preserve_heritage |-> TRUE, lighting |-> TRUE],
      [preserve_heritage |-> FALSE, landscaping |-> TRUE, lighting |-> TRUE] }

OptionsArguments ==
    { [options |-> PyDict(items),
       address |-> "123 Main St", lat |-> "40.7", lon |-> "-74.0"] :
          items \in OptionsCases }

\* The plan call and the image edit succeed: the prompt is built before both
AnsweredPlans == { out \in PlanOutcomes : ~out.raised }
AnsweredEdits == { resp \in PlainEditResponses : ~resp.exc }

OptionsNext ==
    \/ \E args \in OptionsArguments : Restore(IMAGE_B, args)
    \/ \E out \in VisionOutcomes : VisionResponse(out)
    \/ \E out \in AnsweredPlans : PlanResponse(out)
    \/ \E resp \in AnsweredEdits : EditResponse1(resp)

OptionsSpec == ConfiguredInit /\ [][OptionsNext]_vars

----------------------------------------------------------------------------
(* The pipeline with AZURE_OPENAI_DEPLOYMENT_NAME unset, empty or set *)

DeploymentNames == { None, "", "gpt-4.1", "restoration-chat" }

DeploymentInit ==
    /\ env \in [AZURE_OPENAI_API_KEY : {"0123456789abcdef"},
                AZURE_OPENAI_ENDPOINT : {"https://derelict.openai.azure.com"},
                AZURE_OPENAI_DEPLOYMENT_NAME : DeploymentNames]
    /\ restoration_results = EmptyDict
    /\ analysis_cache = EmptyDict
    /\ pc = "idle"
    /\ frame = NewFrame("", [options |-> PyDict(EmptyDict), address |-> None,
                                lat |-> None, lon |-> None])
    /\ ret = NotReturned
    /\ uuid_count = 0
    /\ calls = 0
    /\ requests = << >>
    /\ slept = 0
    /\ analyze_log = << >>
    /\ error_ids = {}
    /\ served = 0
    /\ response = NoResponse
    /\ other = NoOther

DeploymentNext ==
    \/ \E image_data \in Images, args \in Arguments : Restore(image_data, args)
    \/ \E out \in VisionOutcomes : VisionResponse(out)
    \/ \E out \in PlanOutcomes : PlanResponse(out)
    \/ \E resp \in PlainEditResponses : EditResponse1(resp)

DeploymentSpec == DeploymentInit /\ [][DeploymentNext]_vars

----------------------------------------------------------------------------
(* Overlapping requests.  analyze_building_with_azure takes no lock and reads *)
(* and writes analysis_cache on both sides of its remote call.  The route as  *)
(* served runs one pipeline at a time; here a second request's call of        *)
(* analyze_building_with_azure runs while the first request's pipeline is     *)
(* under way, as it does when the function is called from two threads.  Of    *)
(* the second request only this call is modelled: nothing after it touches    *)
(* analysis_cache, and the record it stores takes azure_analysis from the     *)
(* call's return value (main.py:286, 342).                                    *)

\* main.py:45-58: the second request calls analyze_building_with_azure while
\* the first request's pipeline is under way; a cached key ends the call
OtherAnalyze(image_data) ==
    /\ pc \notin {"idle", "returned"}
    /\ other.pc # "vision"
    /\ other.n < MaxCalls
    /\ LET key == image_hash(image_data)
       IN  IF CacheHit(key, analysis_cache)
           THEN /\ other' = [pc |-> "done", image_data |-> image_data,
                             analysis |-> analysis_cache[key],
                             wrote |-> FALSE, n |-> other.n + 1]
                /\ analyze_log' = Append(analyze_log,
                                         AnalyzeEntry(image_data, FALSE, TRUE))
           ELSE /\ other' = [pc |-> "vision", image_data |-> image_data,
                             analysis |-> None,
                             wrote |-> FALSE, n |-> other.n + 1]
                /\ UNCHANGED analyze_log
    /\ UNCHANGED <<env, restoration_results, analysis_cache, pc, frame, ret,
                   uuid_count, calls, requests, slept, error_ids, served, response>>

\* main.py:86-100: the vision call of the second request ends
OtherVisionResponse(out) ==
    /\ other.pc = "vision"
    /\ analysis_cache' =
           CacheAfterVision(analysis_cache, image_hash(other.image_data), out)
    /\ analyze_log' = Append(analyze_log,
                             AnalyzeEntry(other.image_data, TRUE, ~out.raised))
    /\ other' = [other EXCEPT !.pc = "done",
                              !.analysis = IF out.raised THEN FALLBACK_ANALYSIS
                                                         ELSE out.content,
                              !.wrote = ~out.raised]
    /\ UNCHANGED <<env, restoration_results, pc, frame, ret, uuid_count, calls,
                   requests, slept, error_ids, served, response>>

\* The first request sends IMAGE_A, the second one that image, one with the
\* same first 100 characters or one with another prefix; the plan call and
\* the image edit of the first request succeed
OverlapArguments == { args \in Arguments : args.address = "123 Main St" }

OverlapNext ==
    \/ \E args \in OverlapArguments : Restore(IMAGE_A, args)
    \/ \E out \in VisionOutcomes : VisionResponse(out)
    \/ \E out \in AnsweredPlans : PlanResponse(out)
    \/ \E resp \in AnsweredEdits : EditResponse1(resp)
    \/ \E image_data \in Images : OtherAnalyze(image_data)
    \/ \E out \in VisionOutcomes : OtherVisionResponse(out)

OverlapSpec == ConfiguredInit /\ [][OverlapNext]_vars

----------------------------------------------------------------------------
(* The pipeline under fair scheduling: every remote call that was made ends, *)
(* with an answer or with a failure, and time.sleep returns.  One image, and *)
(* every answer of the three services including the moderation block.        *)

LiveNext ==
    \/ \E args \in Arguments : Restore(IMAGE_A, args)
    \/ \E out \in VisionOutcomes : VisionResponse(out)
    \/ \E out \in PlanOutcomes : PlanResponse(out)
    \/ \E resp \in EditResponses(frame.image_data) : EditResponse1(resp)
    \/ ModerationRetry
    \/ \E resp \in EditResponses(frame.image_data) : EditResponse2(resp)

\* The calls of complete (main.py:86, 138) and of requests.post (main.py:228)
\* return or raise, and time.sleep(2) (main.py:256) returns
Fairness ==
    /\ WF_vars(\E out \in VisionOutcomes : VisionResponse(out))
    /\ WF_vars(\E out \in PlanOutcomes : PlanResponse(out))
    /\ WF_vars(\E resp \in EditResponses(frame.image_data) : EditResponse1(resp))
    /\ WF_vars(ModerationRetry)
    /\ WF_vars(\E resp \in EditResponses(frame.image_data) : EditResponse2(resp))

LiveSpec == Init /\ [][LiveNext]_vars /\ Fairness

----------------------------------------------------------------------------
(* Vocabulary of the claims *)

Configured(v) == v # None /\ v # ""
BothCredentialsConfigured ==
    Configured(env.AZURE_OPENAI_API_KEY) /\ Configured(env.AZURE_OPENAI_ENDPOINT)

Returned == pc = "returned"

\* The last call returned a restoration record (not an error descriptor)
ReturnedRecord == Returned /\ "error" \notin DOMAIN ret

EditRequests == {i \in DOMAIN requests : requests[i].svc = "edit"}
VisionRequests == {i \in DOMAIN requests : requests[i].svc = "vision"}

\* The response is an error whose structured error code is "moderation_blocked"
FailedWithModerationBlocked(resp) ==
    /\ ~resp.exc
    /\ resp.status_code # 200
    /\ resp.is_json
    /\ "error" \in DOMAIN resp.payload
    /\ "code" \in DOMAIN resp.payload.error
    /\ resp.payload.error.code = "moderation_blocked"

\* The response is a 200 that carries an image
CarriesImage(resp) ==
    /\ ~resp.exc
    /\ resp.status_code = 200
    /\ resp.is_json
    /\ "data" \in DOMAIN resp.payload
    /\ Len(resp.payload.data) > 0
    /\ "b64_json" \in DOMAIN resp.payload.data[1]

FirstEditBlockedSecondCarriesImage ==
    /\ Returned
    /\ Len(frame.edit_responses) = 2
    /\ FailedWithModerationBlocked(frame.edit_responses[1])
    /\ CarriesImage(frame.edit_responses[2])

----------------------------------------------------------------------------
(* The claims *)

\* C1: with both credentials configured and options a mapping, every finished
\* run of restore_building_image has stored a record under its id and returned
\* that record, whatever the vision, plan and image-edit calls ended in.
C1_AlwaysStoresRecord ==
    (Returned /\ BothCredentialsConfigured /\ frame.options.type = "dict")
        => /\ "error" \notin DOMAIN ret
           /\ ret.id = frame.result_id
           /\ ret.id \in DOMAIN restoration_results
           /\ restoration_results[ret.id] = ret

\* C1 witness: a run in which the vision call, the plan call and the image
\* edit all failed has stored and returned its record.
C1_Witness ==
    /\ Returned /\ BothCredentialsConfigured /\ frame.options.type = "dict"
    /\ frame.building_analysis = FALLBACK_ANALYSIS
    /\ frame.restoration_description = TemplatePlan(frame.selected_style)
    /\ Len(frame.edit_responses) = 1 /\ frame.edit_responses[1].exc
    /\ frame.result_id \in DOMAIN restoration_results
    /\ restoration_results[frame.result_id] = ret

\* C2: every finished call of restore_building_image returned either the
\* credentials-missing error or a value that carries a non-empty id.
C2_IdOrCredentialsError ==
    Returned =>
        \/ /\ DOMAIN ret = {"error", "help"}
           /\ ret.error = "Azure credentials not found in environment variables."
           /\ ~BothCredentialsConfigured
        \/ /\ "id" \in DOMAIN ret
           /\ ret.id # None
           /\ Len(ret.id) > 0

\* C2 witness: options that are not a mapping end in an error descriptor that
\* carries the id.
C2_Witness ==
    /\ Returned
    /\ frame.options.type = "list"
    /\ "error" \in DOMAIN ret
    /\ "id" \in DOMAIN ret /\ Len(ret.id) > 0

\* C3: a call made while the API key or the endpoint is not configured returns
\* in that same step the error whose help message names AZURE_OPENAI_API_KEY and
\* AZURE_OPENAI_ENDPOINT, issues no remote request and leaves
\* restoration_results and analysis_cache unchanged.
C3_CredentialsMissing ==
    [][ (calls' = calls + 1 /\ ~BothCredentialsConfigured)
          => /\ pc' = "returned"
             /\ "error" \in DOMAIN ret'
             /\ "id" \notin DOMAIN ret'
             /\ Contains(ret'.help, "AZURE_OPENAI_API_KEY")
             /\ Contains(ret'.help, "AZURE_OPENAI_ENDPOINT")
             /\ requests' = << >>
             /\ restoration_results' = restoration_results
             /\ analysis_cache' = analysis_cache ]_vars

\* C3 witness: a call has returned the credentials error with only the
\* endpoint missing.
C3_Witness ==
    /\ Returned
    /\ Configured(env.AZURE_OPENAI_API_KEY)
    /\ ~Configured(env.AZURE_OPENAI_ENDPOINT)
    /\ ret = CREDENTIALS_ERROR
    /\ requests = << >>

\* C4: a call of create_restoration_mockup sends at most two image-edit
\* requests, and it sends the second one exactly when the first attempt failed
\* with error code "moderation_blocked".
C4_RetryIffModerationBlocked ==
    /\ Cardinality(EditRequests) <= 2
    /\ Cardinality(EditRequests) = 2
         => /\ Len(frame.edit_responses) >= 1
            /\ FailedWithModerationBlocked(frame.edit_responses[1])
    /\ (/\ Returned
        /\ Len(frame.edit_responses) >= 1
        /\ FailedWithModerationBlocked(frame.edit_responses[1]))
         => Cardinality(EditRequests) = 2

\* C4 witness: the second attempt was blocked as well and the call has ended
\* after two requests.
C4_Witness ==
    /\ Returned
    /\ Len(frame.edit_responses) = 2
    /\ FailedWithModerationBlocked(frame.edit_responses[2])
    /\ Cardinality(EditRequests) = 2

\* C5 as claimed: first attempt moderation_blocked, second attempt successful:
\* one retry, sent at least 2 seconds later, and restoration_success is true.
C5_AsClaimed ==
    FirstEditBlockedSecondCarriesImage
        => /\ Cardinality(EditRequests) = 2
           /\ \A i, j \in EditRequests : i < j => requests[j].at >= requests[i].at + 2
           /\ ReturnedRecord
           /\ restoration_results[frame.result_id].restoration_success

\* C5 amended: first attempt moderation_blocked, second attempt answered with an
\* image: one retry, sent at least 2 seconds later, and the stored
\* restoration_success is true exactly when that image is not empty and differs
\* from the original.
C5_RetryThenSuccess ==
    FirstEditBlockedSecondCarriesImage
        => /\ Cardinality(EditRequests) = 2
           /\ \A i, j \in EditRequests : i < j => requests[j].at >= requests[i].at + 2
           /\ ReturnedRecord
           /\ restoration_results[frame.result_id].restoration_success
                <=> /\ frame.edit_responses[2].payload.data[1].b64_json # ""
                    /\ frame.edit_responses[2].payload.data[1].b64_json # frame.image_data

\* C5 witness: blocked, retried, answered with a new image, stored as a success.
C5_Witness ==
    /\ FirstEditBlockedSecondCarriesImage
    /\ frame.edit_responses[2].payload.data[1].b64_json = EDITED_IMAGE
    /\ restoration_results[frame.result_id].restoration_success
    /\ restoration_results[frame.result_id].restored_image = EDITED_IMAGE

\* The last image-edit attempt of the finished call failed: network error,
\* non-200 response, a body that is no JSON, or no image in the body.
LastEditAttemptFailed ==
    /\ Returned
    /\ Len(frame.edit_responses) >= 1
    /\ ~CarriesImage(frame.edit_responses[Len(frame.edit_responses)])

\* C6: when the image edit of a run that stored a record ended in an unrecovered
\* failure (the last attempt failed, or the editor stopped before any request),
\* the stored restored_image equals original_image and restoration_success is
\* false.
C6_FallbackToOriginal ==
    (ReturnedRecord /\ (LastEditAttemptFailed \/ Len(frame.edit_responses) = 0))
        => /\ restoration_results[frame.result_id].restored_image
                = restoration_results[frame.result_id].original_image
           /\ restoration_results[frame.result_id].original_image = frame.image_data
           /\ ~restoration_results[frame.result_id].restoration_success

\* C6 witness: a second moderation block; the record holds the original image.
C6_Witness ==
    /\ ReturnedRecord
    /\ Len(frame.edit_responses) = 2
    /\ FailedWithModerationBlocked(frame.edit_responses[2])
    /\ restoration_results[frame.result_id].restored_image = frame.image_data
    /\ ~restoration_results[frame.result_id].restoration_success

\* C7 as claimed: create_restoration_mockup never raises, whatever the image
\* string and the remote response are.
C7_MockupNeverRaises ==
    frame.mockup.state # "raised"

\* C8: in every stored record restoration_success is true exactly when
\* restored_image differs from original_image.
C8_SuccessIffDiffers ==
    \A id \in DOMAIN restoration_results :
        restoration_results[id].restoration_success
            <=> (restoration_results[id].restored_image
                    # restoration_results[id].original_image)

\* C8 witness: the remote call answered 200 with the unchanged picture and the
\* record is stored as no success.
C8_Witness ==
    /\ ReturnedRecord
    /\ Len(frame.edit_responses) = 1
    /\ CarriesImage(frame.edit_responses[1])
    /\ frame.edit_responses[1].payload.data[1].b64_json = frame.image_data
    /\ ~restoration_results[frame.result_id].restoration_success
    /\ restoration_results[frame.result_id].restored_image = frame.image_data

\* C9 as claimed: two calls of analyze_building_with_azure with the same first
\* 100 characters never both issue a remote vision call.
C9_AsClaimed ==
    \A i, j \in DOMAIN analyze_log :
        (i < j /\ analyze_log[i].key = analyze_log[j].key)
            => ~(analyze_log[i].remote /\ analyze_log[j].remote)

\* C9 amended: of two calls with the same first 100 characters, the later one
\* issues a remote vision call only if the earlier one issued one that failed;
\* after a successful vision call the later call issues none.
C9_OneVisionCallAfterSuccess ==
    \A i, j \in DOMAIN analyze_log :
        (i < j /\ analyze_log[i].key = analyze_log[j].key /\ analyze_log[j].remote)
            => (analyze_log[i].remote /\ ~analyze_log[i].ok)

\* C9 witness: two different images with the same first 100 characters, the
\* first analysed remotely with success, the second served without a request.
C9_Witness ==
    /\ Len(analyze_log) = 2
    /\ analyze_log[1].image # analyze_log[2].image
    /\ Len(analyze_log[1].image) > 100 /\ Len(analyze_log[2].image) > 100
    /\ SubSeq(analyze_log[1].image, 1, 100) = SubSeq(analyze_log[2].image, 1, 100)
    /\ analyze_log[1].remote /\ analyze_log[1].ok
    /\ ~analyze_log[2].remote

\* C10: a call that finds an entry for the image's fingerprint in
\* analysis_cache takes exactly that entry as the analysis, issues no vision
\* request and leaves the cache unchanged.
C10_CacheHit ==
    [][ (/\ calls' = calls + 1
         /\ BothCredentialsConfigured
         /\ image_hash(frame'.image_data) \in DOMAIN analysis_cache)
          => /\ frame'.building_analysis = analysis_cache[image_hash(frame'.image_data)]
             /\ \A i \in DOMAIN requests' : requests'[i].svc # "vision"
             /\ pc' # "vision"
             /\ analysis_cache' = analysis_cache ]_vars

\* C10 witness: the second call was served from the cache and its record holds
\* the text the first call cached.
C10_Witness ==
    /\ ReturnedRecord
    /\ Len(analyze_log) = 2
    /\ analyze_log[1].remote /\ analyze_log[1].ok
    /\ ~analyze_log[2].remote
    /\ VisionRequests = {}
    /\ ret.azure_analysis = analysis_cache[image_hash(frame.image_data)]
    /\ ret.azure_analysis # FALLBACK_ANALYSIS

----------------------------------------------------------------------------
(* The cache and the fallback of analyze_building_with_azure *)

LastAnalyze(log) == log[Len(log)]

\* The calls of analyze_building_with_azure for the cache key `key` whose
\* remote vision call succeeded
RemoteSuccesses(key) ==
    { i \in DOMAIN analyze_log :
          analyze_log[i].key = key /\ analyze_log[i].remote /\ analyze_log[i].ok }

\* C11: analysis_cache is written only by a call of
\* analyze_building_with_azure whose remote vision call succeeded: every key
\* of the cache is the image hash of such a call and its value is an answer of
\* the vision service.  A call that ends in the fallback text writes nothing:
\* the fallback text is never a cached value, and an image whose remote calls
\* all failed has no entry.
C11_CacheOnlyAfterRemoteSuccess ==
    /\ \A key \in DOMAIN analysis_cache :
          /\ RemoteSuccesses(key) # {}
          /\ analysis_cache[key] # FALLBACK_ANALYSIS
          /\ \E out \in VisionOutcomes :
                ~out.raised /\ analysis_cache[key] = out.content
    /\ \A i \in DOMAIN analyze_log :
          (analyze_log[i].remote /\ ~analyze_log[i].ok
              /\ RemoteSuccesses(analyze_log[i].key) = {})
          => analyze_log[i].key \notin DOMAIN analysis_cache

\* An answer is cached for one image, and a later call for another image has
\* ended in the fallback text after its remote call failed: nothing is cached
\* for it.
C11_Witness ==
    /\ analysis_cache # EmptyDict
    /\ \E i \in 1..Len(analyze_log) :
          /\ analyze_log[i].remote
          /\ ~analyze_log[i].ok
          /\ analyze_log[i].key \notin DOMAIN analysis_cache
    /\ frame.building_analysis = FALLBACK_ANALYSIS

\* The stages the run of f has entered
StagesOf(f) == {f.stages[i] : i \in DOMAIN f.stages}

\* The run of f went from stage a straight to stage b
StageFollows(f, a, b) ==
    \E i \in 1..(Len(f.stages) - 1) : f.stages[i] = a /\ f.stages[i + 1] = b

\* The running (or last) call of restore_building_image is past its call of
\* analyze_building_with_azure
AnalyzeFinished ==
    frame.result_id # None /\ pc \notin {"idle", "vision"}

\* C12: analyze_building_with_azure never raises: once the call has
\* finished the run holds a text, which is the fixed fallback text when the
\* remote call failed, and the run has gone from the analysis on to the
\* planning without failing in between.
C12_AnalyzeNeverRaises ==
    AnalyzeFinished =>
        /\ frame.building_analysis # None
        /\ ~LastAnalyze(analyze_log).ok =>
               frame.building_analysis = FALLBACK_ANALYSIS
        /\ StageFollows(frame, "ANALYZING", "PLANNING")

\* The remote vision call has failed, the analysis is the fallback text and
\* the run waits for the answer of the plan call.
C12_Witness ==
    /\ pc = "plan"
    /\ Len(analyze_log) > 0
    /\ LastAnalyze(analyze_log).remote
    /\ ~LastAnalyze(analyze_log).ok
    /\ frame.building_analysis = FALLBACK_ANALYSIS
    /\ StageFollows(frame, "ANALYZING", "PLANNING")

----------------------------------------------------------------------------
(* The plan step *)

PlanRequests == {i \in DOMAIN requests : requests[i].svc = "plan"}

\* The text the claim names: the template filled with the selected style
TemplatedPlanText ==
    "Restoration plan for " \o frame.selected_style
        \o " style renovation based on the analysis."

\* C13: when generate_restoration_description_with_azure has failed, the
\* run does not fail: its restoration_description is the templated plan text
\* of the selected style, the image edit is run with that text, and the run
\* ends with a record stored under its id that carries that text.
C13_PlanFailureUsesTemplate ==
    frame.plan_outcome = "raised" =>
        /\ frame.restoration_description = TemplatedPlanText
        /\ StageFollows(frame, "PLANNING", "EDITING")
        /\ "FAILED" \notin StagesOf(frame)
        /\ \A i \in EditRequests : requests[i].content = TemplatedPlanText
        /\ (B64Decodable(frame.image_data) /\ BothCredentialsConfigured)
               => EditRequests # {}
        /\ Returned =>
              /\ ReturnedRecord
              /\ frame.mockup.state # "not called"
              /\ frame.result_id \in DOMAIN restoration_results
              /\ restoration_results[frame.result_id] = ret
              /\ ret.restoration_description = TemplatedPlanText

\* The plan request failed, the image edit was requested with the templated
\* text and the record is stored.
C13_Witness ==
    /\ Returned
    /\ frame.plan_response = "error"
    /\ frame.plan_outcome = "raised"
    /\ EditRequests # {}
    /\ frame.result_id \in DOMAIN restoration_results
    /\ restoration_results[frame.result_id].restoration_description = TemplatedPlanText

\* C14: a call of generate_restoration_description_with_azure sends at most
\* one remote request and never repeats it; when the request fails the call
\* raises to its caller, and when the credentials are missing it raises
\* without having sent a request; it never returns a fallback text.
C14_GenerateOneRequestThenRaises ==
    /\ Cardinality(PlanRequests) <= 1
    /\ frame.plan_outcome = "not called" => PlanRequests = {} \/ pc = "plan"
    /\ frame.plan_response = "error" =>
          /\ frame.plan_outcome = "raised"
          /\ Cardinality(PlanRequests) = 1
    /\ frame.plan_response = "none" /\ frame.plan_outcome # "not called" =>
          /\ frame.plan_outcome = "raised"
          /\ PlanRequests = {}
    /\ frame.plan_outcome = "returned" =>
          /\ frame.plan_response = "ok"
          /\ \E out \in PlanOutcomes :
                ~out.raised /\ frame.restoration_description = out.content

\* The one plan request of the run failed and the call raised; the run has
\* gone on to the image edit.
C14_Witness ==
    /\ pc = "edit1"
    /\ frame.plan_response = "error"
    /\ frame.plan_outcome = "raised"
    /\ Cardinality(PlanRequests) = 1

----------------------------------------------------------------------------
(* The store restoration_results *)

\* The last call returned an error descriptor that carries an id
ReturnedErrorWithId ==
    Returned /\ "error" \in DOMAIN ret /\ "id" \in DOMAIN ret

\* C15: when an exception is raised in the body of restore_building_image
\* after the id was generated, the call returns an error descriptor that
\* carries that id and a message; and no id carried by an error descriptor is
\* ever a key of restoration_results.
C15_ErrorDescriptorNeverStored ==
    /\ (Returned /\ frame.result_id # None /\ "FAILED" \in StagesOf(frame)) =>
          /\ ReturnedErrorWithId
          /\ ret.id = frame.result_id
          /\ Len(ret.error) > Len("Restoration planning failed: ")
    /\ ReturnedErrorWithId => ret.id \in error_ids
    /\ error_ids \cap DOMAIN restoration_results = {}

\* A run has stored its record, and a later run raised in its body and
\* returned an error descriptor with its own id.
C15_Witness ==
    /\ ReturnedErrorWithId
    /\ ret.id = frame.result_id
    /\ ret.id \in error_ids
    /\ restoration_results # EmptyDict

\* C16: once a record is stored under an id, restoration_results maps that
\* id to the same record in every later state: no step of a pipeline run, no
\* lookup and no rejected request deletes, replaces or changes a stored record.
C16_StoredRecordsImmutable ==
    [][ \A id \in DOMAIN restoration_results :
            /\ id \in DOMAIN restoration_results'
            /\ restoration_results'[id] = restoration_results[id] ]_vars

\* Two runs have stored their records, each under its own id: the second
\* write left the first record in place.
C16_Witness ==
    /\ Cardinality(DOMAIN restoration_results) = 2
    /\ \A id \in DOMAIN restoration_results : restoration_results[id].id = id
    /\ restoration_results[uuid4_hex(1)] # restoration_results[uuid4_hex(2)]

\* C17: a run of restore_building_image writes to restoration_results at
\* most once, and only after its analysis, its plan step and its image-edit
\* step have finished: the store holds at most one record per run that got
\* an id, and the record of the running call is in the store only
\* when the call has returned with all three steps behind it.
C17_OneWriteAfterAllSteps ==
    /\ Cardinality(DOMAIN restoration_results) <= uuid_count
    /\ frame.result_id \in DOMAIN restoration_results =>
          /\ Returned
          /\ frame.building_analysis # None
          /\ frame.plan_outcome # "not called"
          /\ frame.mockup.state # "not called"
          /\ frame.stages =
                 << "RECEIVED", "ANALYZING", "PLANNING", "EDITING", "PERSISTED" >>
          /\ restoration_results[frame.result_id] = ret
    /\ (frame.result_id # None /\ ~Returned) =>
          frame.result_id \notin DOMAIN restoration_results

\* The run wrote its record after a remote analysis, an answered plan request
\* and two image-edit attempts.
C17_Witness ==
    /\ Returned
    /\ frame.result_id \in DOMAIN restoration_results
    /\ VisionRequests # {}
    /\ frame.plan_outcome = "returned"
    /\ Len(frame.edit_responses) = 2
    /\ frame.mockup.state = "returned"

----------------------------------------------------------------------------
(* The stages of a request *)

STAGES == << "RECEIVED", "ANALYZING", "PLANNING", "EDITING", "PERSISTED" >>

IsPrefix(s, t) == Len(s) <= Len(t) /\ SubSeq(t, 1, Len(s)) = s

Last(s) == s[Len(s)]

Terminal(stage) == stage \in {"PERSISTED", "FAILED"}

\* C18: a request goes through RECEIVED, ANALYZING, PLANNING, EDITING in
\* this order and ends in PERSISTED or FAILED: the stages it has entered are
\* the first stages of that list, with none left out and none repeated, or
\* such a start of the list, short of PERSISTED, followed by FAILED as its
\* last stage; nothing follows PERSISTED or FAILED, and the call has returned
\* exactly when it is in one of the two.
C18_StagesInOrder ==
    /\ Len(frame.stages) >= 1
    /\ \/ IsPrefix(frame.stages, STAGES)
       \/ /\ Last(frame.stages) = "FAILED"
          /\ IsPrefix(SubSeq(frame.stages, 1, Len(frame.stages) - 1), STAGES)
          /\ Len(frame.stages) >= 2
          /\ "PERSISTED" \notin StagesOf(frame)
    /\ \A i \in 1..(Len(frame.stages) - 1) : ~Terminal(frame.stages[i])
    /\ Returned <=> Terminal(Last(frame.stages))
    /\ Last(frame.stages) = "PERSISTED" =>
          frame.result_id \in DOMAIN restoration_results
    /\ Last(frame.stages) = "FAILED" => "error" \in DOMAIN ret

\* One request has failed in the planning, and a later one has gone through
\* every stage to PERSISTED.
C18_Witness ==
    /\ frame.stages = STAGES
    /\ error_ids # {}
    /\ Returned

----------------------------------------------------------------------------
(* The entry of the pipeline and the lookup of a result *)

\* A call of restore_building_image has been made
Called == pc # "idle"

\* The last request was a restoration request that api_restore_building
\* answered itself
RejectedRestore == response.route = RESTORE_ROUTE

\* C19 as stated: the analysis starts whenever the image is non-empty and
\* both credentials are configured, and a request with an empty image or with
\* a missing credential ends immediately in a credentials-missing error
\* descriptor.
C19_AsClaimed ==
    /\ (Called /\ frame.image_data # EMPTY_IMAGE /\ BothCredentialsConfigured) =>
          "ANALYZING" \in StagesOf(frame)
    /\ (Called /\ ~BothCredentialsConfigured) =>
          Returned /\ ret = CREDENTIALS_ERROR
    /\ RejectedRestore =>
          response.answer.content.error \in
              { CREDENTIALS_ERROR.error, API_CREDENTIALS_ERROR.content.error }

\* C19, amended: restore_building_image starts the analysis whenever both
\* credentials are configured, and it is called with a non-empty image only;
\* with a missing credential it ends at once in the credentials-missing error
\* descriptor, with no request sent.  A restoration request with an empty
\* image is answered with the error "No image data provided", whatever the
\* credentials; one with a non-empty image is answered by
\* api_restore_building itself only when a credential is missing, with a
\* credentials-missing error descriptor.
C19_AnalysisIffCredentials ==
    /\ (Called /\ BothCredentialsConfigured) =>
          /\ "ANALYZING" \in StagesOf(frame)
          /\ frame.image_data # EMPTY_IMAGE
    /\ (Called /\ ~BothCredentialsConfigured) =>
          /\ Returned
          /\ ret = CREDENTIALS_ERROR
          /\ frame.stages = << "RECEIVED", "FAILED" >>
          /\ requests = << >>
    /\ RejectedRestore =>
          IF response.request = EMPTY_IMAGE
          THEN response.answer = NO_IMAGE_ERROR
          ELSE ~BothCredentialsConfigured /\ response.answer = API_CREDENTIALS_ERROR

\* Both credentials are configured, a run has started its analysis, and the
\* next request, with an empty image, was answered "No image data provided".
C19_Witness ==
    /\ BothCredentialsConfigured
    /\ "ANALYZING" \in StagesOf(frame)
    /\ RejectedRestore
    /\ response.request = EMPTY_IMAGE
    /\ response.answer = NO_IMAGE_ERROR

\* C20: results_page called with an id that is not a key of
\* restoration_results returns the "Result Not Found" page and does not raise
\* (a stored id gets the results page), and no lookup changes
\* restoration_results.
C20_LookupReadsOnly ==
    [][ (served' = served + 1 /\ response'.route = RESULTS_ROUTE) =>
           /\ restoration_results' = restoration_results
           /\ response'.answer.status_code = 200
           /\ response'.answer.content.title =
                  IF response'.request \in DOMAIN restoration_results
                  THEN "Restoration Results"
                  ELSE "Result Not Found" ]_vars

\* A record is stored, and a lookup of an id that was never stored got the
\* "Result Not Found" page.
C20_Witness ==
    /\ restoration_results # EmptyDict
    /\ response.route = RESULTS_ROUTE
    /\ response.request \notin DOMAIN restoration_results
    /\ response.answer.status_code = 200
    /\ response.answer.content.title = "Result Not Found"

----------------------------------------------------------------------------
(* The coordinates of a record *)

\* The strings of LatLonCases that are numerals
NumericStrings == { "40.7", "-74.0", "12", "+3.50", "0", "0.0" }

\* The request of the running (or last) call gives both coordinates as numerals
BothCoordinatesNumeric ==
    frame.lat \in NumericStrings /\ frame.lon \in NumericStrings

NoLocation == [lat |-> FloatNone, lon |-> FloatNone]

\* C21: when lat or lon is absent, empty or not a numeral, the call does not
\* fail: it ends with a record stored under its id whose location has neither
\* a latitude nor a longitude.
C21_BadCoordinatesNoLocation ==
    (Returned /\ ~BothCoordinatesNumeric) =>
        /\ ReturnedRecord
        /\ "FAILED" \notin StagesOf(frame)
        /\ frame.result_id \in DOMAIN restoration_results
        /\ restoration_results[frame.result_id].location = NoLocation
        /\ ret.location = NoLocation

\* A call with a latitude that is not a numeral and a numeric longitude has
\* stored its record, without a location.
C21_Witness ==
    /\ Returned
    /\ frame.lat = "abc"
    /\ frame.lon = "-74.0"
    /\ frame.result_id \in DOMAIN restoration_results
    /\ restoration_results[frame.result_id].location = NoLocation

IsNumber(v) == v # FloatNone

\* C29: in every stored record the location's lat and lon are both absent
\* or both numbers; a request that gives only one of the two as a numeral (the
\* other one not a numeral, empty or absent) stores neither, and a request
\* that gives both as numerals stores both.
C29_BothCoordinatesOrNeither ==
    /\ \A id \in DOMAIN restoration_results :
          IsNumber(restoration_results[id].location.lat)
              <=> IsNumber(restoration_results[id].location.lon)
    /\ (ReturnedRecord /\ ~BothCoordinatesNumeric) =>
          ~IsNumber(ret.location.lat) /\ ~IsNumber(ret.location.lon)
    /\ (ReturnedRecord /\ BothCoordinatesNumeric) =>
          IsNumber(ret.location.lat) /\ IsNumber(ret.location.lon)

\* A call whose latitude is a numeral and whose longitude is not has stored a
\* record with neither, next to a record that has both.
C29_Witness ==
    /\ ReturnedRecord
    /\ frame.lat = "40.7"
    /\ frame.lon = "abc"
    /\ restoration_results[frame.result_id].location = NoLocation
    /\ \E id \in DOMAIN restoration_results :
          IsNumber(restoration_results[id].location.lat)

----------------------------------------------------------------------------
(* The prompt of a record *)

\* The options of the running (or last) call
Options == frame.options.items

Flag(name) == name \in DOMAIN Options /\ Options[name] = TRUE

StyleSentence(style) == "Use a " \o style \o " style for the restoration."

\* C22: for a request with a style, preserve_heritage true, an address and
\* numeric lat and lon strings, the stored record has a non-empty id, the
\* address exactly as given, the location equal to the two parsed numbers
\* (40.7 and -74.0 in the requests of OptionsSpec), and a prompt that contains
\* the style name and the heritage-preservation sentence.
C22_EndToEndScenario ==
    ( /\ Returned
      /\ "style" \in DOMAIN Options
      /\ Flag("preserve_heritage")
      /\ Truthy(frame.address)
      /\ BothCoordinatesNumeric ) =>
        /\ ReturnedRecord
        /\ ret.id # "" /\ ret.id # None
        /\ ret.id \in DOMAIN restoration_results
        /\ LET record == restoration_results[ret.id]
           IN  /\ record.id = ret.id
               /\ record.address = frame.address
               /\ record.address = "123 Main St"
               /\ record.location = [lat |-> [num |-> 407, den |-> 10],
                                     lon |-> [num |-> 0 - 740, den |-> 10]]
               /\ Contains(record.prompt, Options.style)
               /\ Contains(record.prompt,
                           "Preserve historical and heritage elements of the building.")

\* The end-to-end request of the specification has been served: style
\* "Modern renovation", preserve_heritage true, address "123 Main St",
\* lat "40.7", lon "-74.0".
C22_Witness ==
    /\ ReturnedRecord
    /\ Options = [style |-> "Modern renovation", preserve_heritage |-> TRUE]
    /\ frame.address = "123 Main St"
    /\ frame.lat = "40.7" /\ frame.lon = "-74.0"
    /\ ret.id \in DOMAIN restoration_results
    /\ Contains(restoration_results[ret.id].prompt, "Modern renovation")

\* C28: in the prompt of the record a call has stored, each of the four
\* option sentences (heritage, landscaping, lighting, expansion) is present
\* if and only if the corresponding flag of the request's options is true,
\* and the style sentence names the requested style, or "Modern renovation"
\* when the options give no style.
C28_PromptFollowsOptions ==
    ReturnedRecord =>
        LET prompt == restoration_results[ret.id].prompt
        IN  /\ Contains(prompt, "Preserve historical and heritage elements of the building.")
                  <=> Flag("preserve_heritage")
            /\ Contains(prompt, "Add attractive landscaping and greenery around the building.")
                  <=> Flag("landscaping")
            /\ Contains(prompt,
                   "Add modern and attractive lighting to highlight architectural features.")
                  <=> Flag("lighting")
            /\ Contains(prompt,
                   "Consider a tasteful expansion or addition that complements the original structure.")
                  <=> Flag("expand_building")
            /\ Contains(prompt,
                   StyleSentence(IF "style" \in DOMAIN Options
                                 THEN Options.style ELSE "Modern renovation"))

\* A request with landscaping and lighting true, preserve_heritage false and
\* no style has stored its record.
C28_Witness ==
    /\ ReturnedRecord
    /\ Options = [preserve_heritage |-> FALSE, landscaping |-> TRUE, lighting |-> TRUE]
    /\ ret.id \in DOMAIN restoration_results
    /\ Contains(restoration_results[ret.id].prompt, StyleSentence("Modern renovation"))

\* C27 as stated: the style named in the prompt of every stored record is one
\* of the eight values of RESTORATION_STYLES.
C27_StyleIsListed ==
    ReturnedRecord =>
        \E i \in DOMAIN RESTORATION_STYLES :
            Contains(restoration_results[ret.id].prompt,
                     StyleSentence(RESTORATION_STYLES[i]))

----------------------------------------------------------------------------
(* The two kinds of error *)

\* The environment lacks the API key, lacks the endpoint
KeyAbsent == ~Configured(env.AZURE_OPENAI_API_KEY)
EndpointAbsent == ~Configured(env.AZURE_OPENAI_ENDPOINT)

\* C25: the absence of the API key alone and the absence of the endpoint
\* alone each produce the credentials-missing error, and that error is told
\* apart from a runtime failure of the pipeline: the credentials-missing
\* descriptor never carries an id, the runtime failure descriptor always
\* carries one.  The same holds of the handler's own answer (401, no id).
C25_CredentialsErrorDistinct ==
    /\ (Returned /\ (KeyAbsent \/ EndpointAbsent)) =>
          /\ ret = CREDENTIALS_ERROR
          /\ "id" \notin DOMAIN ret
    /\ (Returned /\ "error" \in DOMAIN ret /\ ~KeyAbsent /\ ~EndpointAbsent) =>
          /\ "id" \in DOMAIN ret
          /\ ret.id = frame.result_id
          /\ ret.id # None
          /\ ret.error # CREDENTIALS_ERROR.error
    /\ (response.route = RESTORE_ROUTE /\ (KeyAbsent \/ EndpointAbsent)
          /\ response.request # EMPTY_IMAGE) =>
          /\ response.answer = API_CREDENTIALS_ERROR
          /\ "id" \notin DOMAIN response.answer.content
    /\ (response.route = RESTORE_ROUTE /\ ~KeyAbsent /\ ~EndpointAbsent) =>
          response.answer # API_CREDENTIALS_ERROR

\* The key is set and the endpoint is not: the call returned the
\* credentials-missing descriptor before an id was generated
C25_Witness ==
    /\ Returned
    /\ ~KeyAbsent
    /\ EndpointAbsent
    /\ ret = CREDENTIALS_ERROR
    /\ frame.result_id = None

----------------------------------------------------------------------------
(* Keys, records and the result page *)

\* The last request was a lookup of result_id
LookedUp(result_id) ==
    response.route = RESULTS_ROUTE /\ response.request = result_id

\* C30: every key of restoration_results maps to a record whose id is that
\* key; the record a call returns is the record stored under its id; and the
\* result page opened with the id of a stored record finds it, while any
\* other id gets the not-found page.
C30_RecordsKeyedByTheirId ==
    /\ \A k \in DOMAIN restoration_results : restoration_results[k].id = k
    /\ ReturnedRecord =>
          /\ ret.id \in DOMAIN restoration_results
          /\ restoration_results[ret.id] = ret
    /\ \A k \in LookupIds :
          LookedUp(k) =>
             (response.answer.content.title =
                 IF k \in DOMAIN restoration_results
                 THEN "Restoration Results" ELSE "Result Not Found")

\* A call returned a record and the page was then opened with its id
C30_Witness ==
    /\ ReturnedRecord
    /\ LookedUp(ret.id)
    /\ response.answer.content.title = "Restoration Results"

----------------------------------------------------------------------------
(* The deployments the requests go to *)

\* The deployment name the environment sets for the chat and vision model
ChatDeploymentName == env.AZURE_OPENAI_DEPLOYMENT_NAME

\* C26: the deployment of the vision and plan calls and the deployment of the
\* image edit are configured by separate values: whatever name is set for
\* the chat/vision deployment, the image edit goes to the deployment it goes
\* to when that name is not set.
C26_DeploymentsSeparate ==
    \A i \in DOMAIN requests :
       /\ requests[i].svc \in {"vision", "plan"} =>
             requests[i].deployment =
                IF ChatDeploymentName = None THEN CHAT_DEPLOYMENT_DEFAULT
                                             ELSE ChatDeploymentName
       /\ requests[i].svc = "edit" =>
             requests[i].deployment = IMAGE_DEPLOYMENT_DEFAULT

----------------------------------------------------------------------------
(* Termination *)

\* A call of restore_building_image is under way
Running == pc \notin {"idle", "returned"}

\* The call has ended in one of the two terminal stages
Ended ==
    /\ pc = "returned"
    /\ Terminal(Last(frame.stages))

\* C23: provided every remote call returns or fails, every request reaches
\* PERSISTED or FAILED: a call that is under way always ends, and it makes at
\* most one moderation retry on the way.
C23_EveryRequestTerminates ==
    /\ Running ~> Ended
    /\ [](slept <= RETRY_DELAY)
    /\ [](Cardinality(EditRequests) <= 2)

\* A call that was blocked by moderation, slept and asked again has ended
C23_Witness ==
    /\ Ended
    /\ slept = RETRY_DELAY
    /\ Cardinality(EditRequests) = 2

----------------------------------------------------------------------------
(* Overlapping writers of analysis_cache *)

\* The key of the second request's image
OtherKey == image_hash(other.image_data)

\* The step ends the vision call of the first request with an answer
FirstWrites ==
    /\ pc = "vision"
    /\ pc' # "vision"
    /\ Last(analyze_log').ok

\* The step ends the vision call of the second request with an answer
OtherWrites ==
    /\ other.pc = "vision"
    /\ other'.pc = "done"
    /\ other'.wrote

====
